---- MODULE Spec2Model ----
(***************************************************************************)
(* Hub / Room / Room Manager broadcast engine of the real-time chat        *)
(* server (internal/hub, internal/room, internal/websocket).               *)
(*                                                                         *)
(* Every goroutine is a process with a program counter: the Hub loop, the  *)
(* Manager loop, one loop per Room, and per connection a reader (readPump) *)
(* and a writer (writePump).  An unbuffered channel is a rendezvous: one   *)
(* step moves the sender past its send and the receiving loop out of its   *)
(* select.  A buffered channel (a Send queue) is a sequence plus a count   *)
(* of the close() calls made on it.  A Go run-time panic ends the process: *)
(* it is recorded in `panic` and no step is taken afterwards.              *)
(***************************************************************************)
EXTENDS Integers, Sequences, FiniteSets, TLC

\* ---------------------------------------------------------------- bounds
NumClients == 2     \* connections the model opens
NumRoomIds == 2     \* identifiers generateRoomID can return
MaxRooms   == 2     \* Room objects NewRoom may allocate
MaxMembers == 2     \* join requests issued (one room.Client record each)
SendCap    == 2     \* capacity of a hub.Client.Send channel
MemberCap  == 1     \* capacity of a room.Client.Send channel
MaxMsgs    == 2     \* chat messages read from the connections
MaxDeletes == 1     \* requests put on Manager.DeleteRoom
MaxInputs  == 3     \* frames read from the connections plus delete requests
MaxDrains  == 1     \* payloads the writers take off the Send queues

Clients  == 1..NumClients
RoomIds  == 1..NumRoomIds
RoomObjs == 1..MaxRooms
Members  == 1..MaxMembers

\* nil / "" of the source
Nil == 0

VARIABLES
    hClients,   \* Hub.clients: the set of registered *hub.Client
    hub,        \* the Hub loop: [pc, msg, sender, todo]
    Send,       \* hub.Client.Send of each connection: the buffered payloads
    closes,     \* number of close() calls made on each hub.Client.Send
    conn,       \* each connection's reader: [pc, id, obj, msg, sure, rooms, list]
    RoomID,     \* hub.Client.RoomID ("" is Nil)
    Rooms,      \* Manager.Rooms: identifier -> Room object (Nil: absent)
    mgr,        \* the Manager loop: [pc, c, id, room, rc, ok, text, msg, todo, seen]
    rId,        \* Room.ID of each allocated Room object (Nil: not allocated)
    rClients,   \* Room.Clients: the set of *room.Client of each Room
    room,       \* each Room loop: [pc, rc, msg, sender, todo]
    rMutex,     \* Room.Mutex: "free", "mgrW" (Manager holds Lock), "roomR"
    mOwner,     \* room.Client.ID of each allocated record (Nil: not allocated)
    mRoom,      \* room.Client.Room of each record (Nil: not allocated)
    mSend,      \* room.Client.Send of each record
    mCloses,    \* number of close() calls made on each room.Client.Send
    panic,      \* "" or the run-time panic that ended the process
    nmsg,       \* chat messages read so far
    ndel,       \* delete requests issued so far
    njoin,      \* join requests issued so far
    nin,        \* frames read and delete requests issued so far
    ndrain,     \* payloads taken off the Send queues so far
    hLog,       \* history: the Hub's current / last broadcast pass
    rLog,       \* history: each Room's current / last broadcast pass
    hProc,      \* history: the messages the Hub loop has started a pass for
    rProc,      \* history: the messages each Room loop has started a pass for
    heard,      \* history: chat messages ever enqueued on each hub.Client.Send
    chatAud,    \* history: per chat message, the other clients in the sender's room
    createdRet, \* history: identifiers returned by createRoom, not deleted since
    gone        \* history: Room objects whose identifier deleteRoom removed

vars == <<hClients, hub, Send, closes, conn, RoomID, Rooms, mgr, rId, rClients,
          room, rMutex, mOwner, mRoom, mSend, mCloses, panic, nmsg, ndel, njoin,
          nin, ndrain, hLog, rLog, hProc, rProc, heard, chatAud, createdRet, gone>>

hubVars  == <<hClients, hub, hLog, hProc>>
mgrVars  == <<Rooms, mgr>>
roomVars == <<rClients, room, rMutex, rLog, rProc>>
memVars  == <<mOwner, mRoom, mSend, mCloses>>
cntVars  == <<nmsg, ndel, njoin, nin, ndrain>>
ghostVars == <<chatAud, createdRet, gone>>

\* ---------------------------------------------------------------- payloads
Msg(t, from, rid, n) == [t |-> t, from |-> from, room |-> rid, n |-> n]
NoMsg == Msg("none", Nil, Nil, 0)

\* hub.go:88 / hub.go:103
HubJoinedMsg(c) == Msg("joined", c, Nil, 0)
HubLeftMsg(c)   == Msg("left", c, Nil, 0)
\* room.go:59 / room.go:74
RoomJoinedMsg(m, o) == Msg("joined_room", mOwner[m], rId[o], 0)
RoomLeftMsg(m, o)   == Msg("left_room", mOwner[m], rId[o], 0)
\* websocket.go:120-133: username, roomId of the sender stamped by the server
ChatMsg(c, n) == Msg("chat", c, RoomID[c], n)

\* ---------------------------------------------------------------- helpers
\* hub.go:119 / room.go:90: the sender, when given, is skipped
PassRecipients(members, sender) == members \ {sender}

NoLog == [start |-> {}, sender |-> Nil, msg |-> NoMsg,
          got |-> <<>>, full |-> {}, done |-> TRUE]
NewLog(members, sender, msg) ==
    [start |-> members, sender |-> sender, msg |-> msg,
     got |-> [x \in members |-> 0], full |-> {},
     done |-> PassRecipients(members, sender) = {}]

Loop(pc, msg, sender, todo) ==
    [pc |-> pc, msg |-> msg, sender |-> sender, todo |-> todo]
IdleLoop == Loop("select", NoMsg, Nil, {})
\* entry of broadcastMessage: the range statement over the member map
StartPass(members, sender, msg) ==
    LET t == PassRecipients(members, sender)
    IN  Loop(IF t = {} THEN "select" ELSE "pass", msg, sender, t)

Alive == panic = ""

\* hub.go:124 / room.go:95: the queue after "client.Send <- message".
EnqueueTwice(q, msg) == Append(Append(q, msg), msg)
EnqueueFront(q, msg) == <<msg>> \o q
Enqueue(q, msg) == Append(q, msg)

\* hub.go:128 / room.go:99: the member set after delete(clients, client).
EvictedKept(set, x) == set
Evicted(set, x) == set \ {x}

\* hub.go:95: the client set after delete(h.clients, client).
UnregisteredKept(set, c) == set
Unregistered(set, c) == set \ {c}

\* hub.go:134-138: Hub.GetClientCount.
GetClientCount == Cardinality(hClients)

\* manager.go:143-148: the records of room o whose ID is client c's.
RecordsOf(o, c) == {m \in rClients[o] : mOwner[m] = c}

\* The other clients that are, with sender c, in the room c's RoomID names:
\* their join returned success, they have not left, and they and c have a
\* record in the member set of the Room the map holds under that identifier.
RoomPeers(c) ==
    IF RoomID[c] = Nil \/ Rooms[RoomID[c]] = Nil \/ RecordsOf(Rooms[RoomID[c]], c) = {}
    THEN {}
    ELSE {b \in Clients \ {c} : /\ RoomID[b] = RoomID[c]
                                 /\ conn[b].pc \in {"read", "reply"}
                                 /\ RecordsOf(Rooms[RoomID[c]], b) # {}}

IdleConn == [pc |-> "read", id |-> Nil, obj |-> Nil, msg |-> NoMsg, sure |-> FALSE,
             rooms |-> {}, list |-> {}]
IdleMgr  == [pc |-> "select", c |-> Nil, id |-> Nil, room |-> Nil, rc |-> Nil,
             ok |-> FALSE, text |-> "", msg |-> NoMsg, todo |-> {}, seen |-> {}]
IdleRoom == [pc |-> "select", rc |-> Nil, msg |-> NoMsg, sender |-> Nil, todo |-> {}]

\* ---------------------------------------------------------------- Init
Init ==
    /\ hClients = {}
    /\ hub = IdleLoop
    /\ Send = [c \in Clients |-> <<>>]
    /\ closes = [c \in Clients |-> 0]
    /\ conn = [c \in Clients |-> [IdleConn EXCEPT !.pc = "new"]]
    /\ RoomID = [c \in Clients |-> Nil]
    /\ Rooms = [i \in RoomIds |-> Nil]
    /\ mgr = IdleMgr
    /\ rId = [o \in RoomObjs |-> Nil]
    /\ rClients = [o \in RoomObjs |-> {}]
    /\ room = [o \in RoomObjs |-> [IdleRoom EXCEPT !.pc = "off"]]
    /\ rMutex = [o \in RoomObjs |-> "free"]
    /\ mOwner = [m \in Members |-> Nil]
    /\ mRoom = [m \in Members |-> Nil]
    /\ mSend = [m \in Members |-> <<>>]
    /\ mCloses = [m \in Members |-> 0]
    /\ panic = ""
    /\ nmsg = 0 /\ ndel = 0 /\ njoin = 0 /\ nin = 0 /\ ndrain = 0
    /\ hLog = NoLog
    /\ rLog = [o \in RoomObjs |-> NoLog]
    /\ hProc = <<>>
    /\ rProc = [o \in RoomObjs |-> <<>>]
    /\ heard = [c \in Clients |-> {}]
    /\ chatAud = [n \in 1..MaxMsgs |-> {}]
    /\ createdRet = {}
    /\ gone = {}

\* ================================================================ Hub
\* hub.go:79-89: Register case, up to the entry of broadcastMessage.
\* websocket.go:74: HandleWebSocket blocks on h.Register, then starts the pumps.
HubRegister(c) ==
    /\ Alive /\ hub.pc = "select" /\ conn[c].pc = "new"
    /\ hClients' = hClients \cup {c}
    /\ hub' = StartPass(hClients', c, HubJoinedMsg(c))
    /\ hLog' = NewLog(hClients', c, HubJoinedMsg(c))
    /\ hProc' = Append(hProc, HubJoinedMsg(c))
    /\ conn' = [conn EXCEPT ![c] = IdleConn]
    /\ UNCHANGED <<Send, closes, RoomID, mgrVars, rId, roomVars, memVars, panic,
                   cntVars, heard, ghostVars>>

\* hub.go:91-104: Unregister case; the sender is readPump's deferred function
\* (websocket.go:83-86).
HubUnregister(c) ==
    /\ Alive /\ hub.pc = "select" /\ conn[c].pc = "toUnreg"
    /\ conn' = [conn EXCEPT ![c].pc = "gone"]
    /\ IF c \in hClients
       THEN /\ hClients' = Unregistered(hClients, c)
            /\ closes' = [closes EXCEPT ![c] = @ + 1]
            /\ panic' = IF closes[c] > 0 THEN "close of closed channel" ELSE ""
       ELSE UNCHANGED <<hClients, closes, panic>>
    /\ hub' = StartPass(hClients', Nil, HubLeftMsg(c))
    /\ hLog' = NewLog(hClients', Nil, HubLeftMsg(c))
    /\ hProc' = Append(hProc, HubLeftMsg(c))
    /\ UNCHANGED <<Send, RoomID, mgrVars, rId, roomVars, memVars,
                   cntVars, heard, ghostVars>>

\* hub.go:106-107: Broadcast case; the sender is readPump (websocket.go:151).
HubBroadcast(c) ==
    /\ Alive /\ hub.pc = "select" /\ conn[c].pc = "toHub"
    /\ hub' = StartPass(hClients, Nil, conn[c].msg)
    /\ hLog' = NewLog(hClients, Nil, conn[c].msg)
    /\ hProc' = Append(hProc, conn[c].msg)
    /\ conn' = [conn EXCEPT ![c] = IdleConn]
    /\ UNCHANGED <<hClients, Send, closes, RoomID, mgrVars, rId, roomVars, memVars,
                   panic, cntVars, heard, ghostVars>>

\* hub.go:117-130: one iteration of the range loop of broadcastMessage, for
\* recipient c.  The select either enqueues or, the queue being full, closes
\* the channel and deletes the client.  A send on a closed channel panics.
HubDeliver(c) ==
    /\ Alive /\ hub.pc = "pass" /\ c \in hub.todo
    /\ LET rest == hub.todo \ {c}
           fin  == rest = {}
       IN  /\ hub' = IF fin THEN IdleLoop ELSE [hub EXCEPT !.todo = rest]
           /\ IF closes[c] > 0
              THEN /\ panic' = "send on closed channel"
                   /\ UNCHANGED <<Send, closes, hClients, hLog, heard>>
              ELSE IF Len(Send[c]) < SendCap
              THEN /\ Send' = [Send EXCEPT ![c] = Enqueue(@, hub.msg)]
                   /\ hLog' = [hLog EXCEPT !.got[c] = @ + Len(Send'[c]) - Len(Send[c]),
                                           !.done = fin]
                   /\ heard' = IF hub.msg.t = "chat"
                               THEN [heard EXCEPT ![c] = @ \cup {hub.msg.n}]
                               ELSE heard
                   /\ UNCHANGED <<closes, hClients, panic>>
              ELSE /\ closes' = [closes EXCEPT ![c] = @ + 1]
                   /\ hClients' = Evicted(hClients, c)
                   /\ hLog' = [hLog EXCEPT !.full = @ \cup {c}, !.done = fin]
                   /\ UNCHANGED <<Send, panic, heard>>
    /\ UNCHANGED <<conn, RoomID, mgrVars, rId, roomVars, memVars,
                   cntVars, ghostVars, hProc>>

\* ================================================================ connection
\* websocket.go:96-152: readPump reads a chat record, stamps it with the
\* client's name and current room and routes it by c.RoomID.
ReadChat(c) ==
    /\ Alive /\ conn[c].pc = "read" /\ nmsg < MaxMsgs /\ nin < MaxInputs
    /\ nmsg' = nmsg + 1 /\ nin' = nin + 1
    /\ conn' = [conn EXCEPT ![c].pc = IF RoomID[c] # Nil THEN "toMgrBc" ELSE "toHub",
                            ![c].msg = ChatMsg(c, nmsg + 1)]
    /\ chatAud' = [chatAud EXCEPT ![nmsg + 1] = RoomPeers(c)]
    /\ UNCHANGED <<hubVars, Send, closes, RoomID, mgrVars, rId, roomVars, memVars,
                   panic, ndel, njoin, ndrain, heard, createdRet, gone>>

\* The Room object NewRoom allocates next (manager.go:174, room.go:31-42).
FreeRooms == {o \in RoomObjs : rId[o] = Nil}
NextRoom == CHOOSE o \in FreeRooms : \A p \in FreeRooms : o <= p
\* The room.Client record the Manager allocates next (manager.go:101-106).
FreeMembers == {m \in Members : mOwner[m] = Nil}
NextMember == CHOOSE m \in FreeMembers : \A p \in FreeMembers : m <= p

\* websocket.go:207-209, manager.go:172-175: a "create" action; the identifier
\* is generateRoomID's (manager.go:245-257): a function of the clock alone,
\* so any identifier, a live room's included.
ReadCreate(c, id) ==
    /\ Alive /\ conn[c].pc = "read" /\ FreeRooms # {} /\ njoin < MaxMembers
    /\ nin < MaxInputs
    /\ njoin' = njoin + 1 /\ nin' = nin + 1
    /\ rId' = [rId EXCEPT ![NextRoom] = id]
    /\ conn' = [conn EXCEPT ![c].pc = "toCreate", ![c].id = id, ![c].obj = NextRoom]
    /\ UNCHANGED <<hubVars, Send, closes, RoomID, mgrVars, roomVars, memVars,
                   panic, nmsg, ndel, ndrain, heard, ghostVars>>

\* websocket.go:229-231: a "join" action for identifier id.
ReadJoin(c, id) ==
    /\ Alive /\ conn[c].pc = "read" /\ njoin < MaxMembers /\ nin < MaxInputs
    /\ njoin' = njoin + 1 /\ nin' = nin + 1
    /\ conn' = [conn EXCEPT ![c].pc = "toJoin", ![c].id = id,
                            ![c].sure = id \in createdRet]
    /\ UNCHANGED <<hubVars, Send, closes, RoomID, mgrVars, rId, roomVars, memVars,
                   panic, nmsg, ndel, ndrain, heard, ghostVars>>

\* websocket.go:257-260: a "leave" action (nothing is done when c.RoomID is "").
ReadLeave(c) ==
    /\ Alive /\ conn[c].pc = "read" /\ RoomID[c] # Nil /\ nin < MaxInputs
    /\ nin' = nin + 1
    /\ conn' = [conn EXCEPT ![c].pc = "toLeave", ![c].id = RoomID[c]]
    /\ UNCHANGED <<hubVars, Send, closes, RoomID, mgrVars, rId, roomVars, memVars,
                   panic, nmsg, ndel, njoin, ndrain, heard, ghostVars>>

\* websocket.go:97-103: ReadMessage fails (connection lost, read deadline);
\* the deferred function then blocks on Hub.Unregister (websocket.go:83-86).
ReadError(c) ==
    /\ Alive /\ conn[c].pc = "read" /\ nin < MaxInputs
    /\ nin' = nin + 1
    /\ conn' = [conn EXCEPT ![c].pc = "toUnreg"]
    /\ UNCHANGED <<hubVars, Send, closes, RoomID, mgrVars, rId, roomVars, memVars,
                   panic, nmsg, ndel, njoin, ndrain, heard, ghostVars>>

\* room.go:105-109: Room.GetClientCount.
RoomClientCount(o) == Cardinality(rClients[o])

\* websocket.go:276-278, manager.go:189-198: a "list" action: GetRooms copies
\* the rooms of the map under the Manager's read lock, which the DeleteRoom
\* case holds for writing during its range.
ReadList(c) ==
    /\ Alive /\ conn[c].pc = "read" /\ nin < MaxInputs /\ mgr.pc # "delete"
    /\ nin' = nin + 1
    /\ LET got == {Rooms[id] : id \in {i \in RoomIds : Rooms[i] # Nil}}
       IN  conn' = [conn EXCEPT ![c] =
                      IF got = {}
                      THEN [IdleConn EXCEPT !.pc = "reply",
                                            !.msg = Msg("room_list", Nil, Nil, 0)]
                      ELSE [IdleConn EXCEPT !.pc = "listCount", !.rooms = got]]
    /\ UNCHANGED <<hubVars, Send, closes, RoomID, mgrVars, rId, roomVars, memVars,
                   panic, nmsg, ndel, njoin, ndrain, heard, ghostVars>>

\* websocket.go:281-296: one iteration of the loop over the rooms: the entry
\* of room o with GetClientCount read under the Room's read lock; after the
\* last one the room_list reply is built.
ListCount(c, o) ==
    /\ Alive /\ conn[c].pc = "listCount" /\ o \in conn[c].rooms
    /\ rMutex[o] # "mgrW"
    /\ LET rest == conn[c].rooms \ {o}
           ent  == [obj |-> o, id |-> rId[o], clientCount |-> RoomClientCount(o)]
       IN  conn' = [conn EXCEPT ![c].rooms = rest,
                                ![c].list = @ \cup {ent},
                                ![c].pc = IF rest = {} THEN "reply" ELSE @,
                                ![c].msg = IF rest = {}
                                           THEN Msg("room_list", Nil, Nil, 0) ELSE @]
    /\ UNCHANGED <<hubVars, Send, closes, RoomID, mgrVars, rId, roomVars, memVars,
                   panic, cntVars, heard, ghostVars>>

\* What handleRoomAction does after a reply is on c.Send: after room_created
\* it joins the new room (websocket.go:222-227), otherwise it returns.  (obj
\* stays set while the handler of a create is on the stack.)
AfterReplyNoJoin(c) == IdleConn
AfterReply(c) ==
    IF conn[c].msg.t = "room_created"
    THEN [IdleConn EXCEPT !.pc = "toJoin", !.id = conn[c].msg.room,
                          !.obj = conn[c].obj,
                          !.sure = conn[c].msg.room \in createdRet]
    ELSE IdleConn

\* websocket.go:220, 245, 254, 272: "c.Send <- reply" in the reader: blocks
\* while the queue is full, panics when the Hub has closed the channel.
Reply(c) ==
    /\ Alive /\ conn[c].pc = "reply"
    /\ \/ closes[c] > 0
       \/ Len(Send[c]) < SendCap
    /\ IF closes[c] > 0
       THEN /\ panic' = "send on closed channel"
            /\ UNCHANGED <<Send, conn>>
       ELSE /\ Send' = [Send EXCEPT ![c] = Append(@, conn[c].msg)]
            /\ conn' = [conn EXCEPT ![c] = AfterReply(c)]
            /\ UNCHANGED panic
    /\ UNCHANGED <<hubVars, closes, RoomID, mgrVars, rId, roomVars, memVars,
                   cntVars, heard, ghostVars>>

\* websocket.go:166-188: writePump receives the next payload of c.Send (values
\* buffered before a close are still received).
Drain(c) ==
    /\ Alive /\ conn[c].pc # "new" /\ Len(Send[c]) > 0 /\ ndrain < MaxDrains
    /\ ndrain' = ndrain + 1
    /\ Send' = [Send EXCEPT ![c] = Tail(@)]
    /\ UNCHANGED <<hubVars, closes, conn, RoomID, mgrVars, rId, roomVars, memVars,
                   panic, nmsg, ndel, njoin, nin, heard, ghostVars>>

\* ================================================================ Manager
\* manager.go:172-178 / 66: CreateRoomAsync hands the new Room to the loop and
\* returns the identifier at once; handleRoomAction goes on to its
\* room_created reply (websocket.go:212-220).
MgrCreate(c) ==
    /\ Alive /\ mgr.pc = "select" /\ conn[c].pc = "toCreate"
    /\ mgr' = [IdleMgr EXCEPT !.pc = "create", !.id = conn[c].id, !.room = conn[c].obj]
    /\ conn' = [conn EXCEPT ![c].pc = "reply",
                            ![c].msg = Msg("room_created", Nil, conn[c].id, 0)]
    /\ createdRet' = createdRet \cup {conn[c].id}
    /\ UNCHANGED <<hubVars, Send, closes, RoomID, Rooms, rId, roomVars, memVars,
                   panic, cntVars, heard, chatAud, gone>>

\* manager.go:67-69: the room map after the CreateRoom case stored the room.
InsertRoomLost(map, id, o) == map
InsertRoom(map, id, o) == [map EXCEPT ![id] = o]

\* manager.go:67-74: CreateRoom case: store the room, start its loop.
MgrCreateInsert ==
    /\ Alive /\ mgr.pc = "create"
    /\ Rooms' = InsertRoom(Rooms, mgr.id, mgr.room)
    /\ room' = [room EXCEPT ![mgr.room] = IdleRoom]
    /\ mgr' = IdleMgr
    /\ UNCHANGED <<hubVars, Send, closes, conn, RoomID, rId, rClients, rMutex, rLog, rProc,
                   memVars, panic, cntVars, heard, ghostVars>>

\* manager.go:76-78: DeleteRoom case, up to the range statement.  Nothing in
\* the repository sends on Manager.DeleteRoom: the request is the
\* environment's.
MgrDelete(id) ==
    /\ Alive /\ mgr.pc = "select" /\ ndel < MaxDeletes /\ nin < MaxInputs
    /\ ndel' = ndel + 1 /\ nin' = nin + 1
    /\ mgr' = IF Rooms[id] = Nil THEN IdleMgr
              ELSE [IdleMgr EXCEPT !.pc = "delete", !.id = id, !.room = Rooms[id],
                                   !.todo = rClients[Rooms[id]]]
    /\ UNCHANGED <<hubVars, Send, closes, conn, RoomID, Rooms, rId, roomVars, memVars,
                   panic, nmsg, njoin, ndrain, heard, ghostVars>>

\* manager.go:80-82: room.Clients after the body of the range, which closes
\* client.Send and leaves the entry in the map.
AfterCloseRemoved(set, m) == set \ {m}
AfterClose(set, m) == set

\* manager.go:80-82: one iteration of "for client := range room.Clients":
\* close(client.Send).  The map is read without the Room's lock while the
\* Room loop may insert into it: an entry inserted during the range may or
\* may not be produced.  Closing a closed channel panics.
MgrDeleteClose(m) ==
    /\ Alive /\ mgr.pc = "delete" /\ m \in rClients[mgr.room] \ mgr.seen
    /\ mgr' = [mgr EXCEPT !.seen = @ \cup {m}]
    /\ mCloses' = [mCloses EXCEPT ![m] = @ + 1]
    /\ rClients' = [rClients EXCEPT ![mgr.room] = AfterClose(@, m)]
    /\ panic' = IF mCloses[m] > 0 THEN "close of closed channel" ELSE ""
    /\ UNCHANGED <<hubVars, Send, closes, conn, RoomID, Rooms, rId, room, rMutex,
                   rLog, rProc, mOwner, mRoom, mSend, cntVars, heard, ghostVars>>

\* manager.go:83-86: the range is over (every entry that was in the map
\* throughout has been produced): delete(m.Rooms, roomID).
MgrDeleteDone ==
    /\ Alive /\ mgr.pc = "delete"
    /\ (mgr.todo \cap rClients[mgr.room]) \subseteq mgr.seen
    /\ Rooms' = [Rooms EXCEPT ![mgr.id] = Nil]
    /\ gone' = gone \cup {mgr.room}
    /\ createdRet' = createdRet \ {mgr.id}
    /\ conn' = [c \in Clients |->
                  IF conn[c].pc \in {"toJoin", "waitJoin"} /\ conn[c].id = mgr.id
                  THEN [conn[c] EXCEPT !.sure = FALSE] ELSE conn[c]]
    /\ mgr' = IdleMgr
    /\ UNCHANGED <<hubVars, Send, closes, RoomID, rId, roomVars, memVars,
                   panic, cntVars, heard, chatAud>>

\* manager.go:123-128: the response to a join whose room is not in the map.
JoinNotFound == [IdleMgr EXCEPT !.pc = "joinRespond", !.ok = FALSE,
                                !.text = "Room not found"]

\* manager.go:88-106, 208-216: JoinRoom case up to the send on room.Register:
\* look the room up and build the room.Client record.  (hub.Client has the
\* three accessors, so the type assertion of manager.go:95 always holds.)
MgrJoin(c) ==
    /\ Alive /\ mgr.pc = "select" /\ conn[c].pc = "toJoin"
    /\ conn' = [conn EXCEPT ![c].pc = "waitJoin"]
    /\ IF Rooms[conn[c].id] # Nil
       THEN /\ mgr' = [IdleMgr EXCEPT !.pc = "joinRegister", !.c = c, !.id = conn[c].id,
                                      !.room = Rooms[conn[c].id], !.rc = NextMember]
            /\ mOwner' = [mOwner EXCEPT ![NextMember] = c]
            /\ mRoom' = [mRoom EXCEPT ![NextMember] = Rooms[conn[c].id]]
       ELSE /\ mgr' = [JoinNotFound EXCEPT !.c = c, !.id = conn[c].id]
            /\ UNCHANGED <<mOwner, mRoom>>
    /\ UNCHANGED <<hubVars, Send, closes, RoomID, Rooms, rId, roomVars, mSend, mCloses,
                   panic, cntVars, heard, ghostVars>>

\* manager.go:109 / room.go:50: "room.Register <- roomClient" meets the Room
\* loop's select.
MgrJoinRegister ==
    /\ Alive /\ mgr.pc = "joinRegister" /\ room[mgr.room].pc = "select"
    /\ room' = [room EXCEPT ![mgr.room] = [IdleRoom EXCEPT !.pc = "reg", !.rc = mgr.rc]]
    /\ mgr' = [mgr EXCEPT !.pc = "joinRespond", !.ok = TRUE,
                          !.text = "Successfully joined room"]
    /\ UNCHANGED <<hubVars, Send, closes, conn, RoomID, Rooms, rId, rClients, rMutex,
                   rLog, rProc, memVars, panic, cntVars, heard, ghostVars>>

\* websocket.go:233-234: c.RoomID after JoinRoomAsync returned.
JoinedRoomIDAlways(old, id, ok) == id
JoinedRoomID(old, id, ok) == IF ok THEN id ELSE old

\* manager.go:111-128, 217 / websocket.go:233-254: the response reaches the
\* reader, which sets c.RoomID on success and builds its reply.
MgrJoinRespond ==
    /\ Alive /\ mgr.pc = "joinRespond"
    /\ RoomID' = [RoomID EXCEPT ![mgr.c] = JoinedRoomID(@, mgr.id, mgr.ok)]
    /\ conn' = [conn EXCEPT ![mgr.c].pc = "reply",
                            ![mgr.c].msg = IF mgr.ok
                                           THEN Msg("room_joined", Nil, mgr.id, 0)
                                           ELSE Msg("room_error", Nil, Nil, 0)]
    /\ mgr' = IdleMgr
    /\ UNCHANGED <<hubVars, Send, closes, Rooms, rId, roomVars, memVars,
                   panic, cntVars, heard, ghostVars>>

\* manager.go:151-156: the result of the LeaveRoom case: true whenever the
\* room is in the map, whether or not the scan found a record.
LeaveResult(exists, found) == exists

\* manager.go:131-134, 221-229: LeaveRoom case: look the room up.
MgrLeave(c) ==
    /\ Alive /\ mgr.pc = "select" /\ conn[c].pc = "toLeave"
    /\ conn' = [conn EXCEPT ![c].pc = "waitLeave"]
    /\ mgr' = IF Rooms[conn[c].id] # Nil
              THEN [IdleMgr EXCEPT !.pc = "leaveLock", !.c = c, !.id = conn[c].id,
                                   !.room = Rooms[conn[c].id]]
              ELSE [IdleMgr EXCEPT !.pc = "leaveRespond", !.c = c, !.id = conn[c].id,
                                   !.ok = LeaveResult(FALSE, FALSE)]
    /\ UNCHANGED <<hubVars, Send, closes, RoomID, Rooms, rId, roomVars, memVars,
                   panic, cntVars, heard, ghostVars>>

\* manager.go:142-151: room.Mutex.Lock(), the scan finds no record of the
\* client, Unlock, respond.
MgrLeaveMiss ==
    /\ Alive /\ mgr.pc = "leaveLock" /\ rMutex[mgr.room] = "free"
    /\ RecordsOf(mgr.room, mgr.c) = {}
    /\ mgr' = [mgr EXCEPT !.pc = "leaveRespond", !.ok = LeaveResult(TRUE, FALSE)]
    /\ UNCHANGED <<hubVars, Send, closes, conn, RoomID, Rooms, rId, roomVars, memVars,
                   panic, cntVars, heard, ghostVars>>

\* manager.go:142-145: room.Mutex.Lock(), the scan reaches record m of the
\* client (map order: any of them) and starts "room.Unregister <- roomClient"
\* with the lock held.
MgrLeaveHit(m) ==
    /\ Alive /\ mgr.pc = "leaveLock" /\ rMutex[mgr.room] = "free"
    /\ m \in RecordsOf(mgr.room, mgr.c)
    /\ mgr' = [mgr EXCEPT !.pc = "leaveUnreg", !.rc = m]
    /\ rMutex' = [rMutex EXCEPT ![mgr.room] = "mgrW"]
    /\ UNCHANGED <<hubVars, Send, closes, conn, RoomID, Rooms, rId, rClients, room, rLog, rProc,
                   memVars, panic, cntVars, heard, ghostVars>>

\* manager.go:145-151 / room.go:62: the send on room.Unregister meets the
\* Room loop's select; the Manager then unlocks.
MgrLeaveUnreg ==
    /\ Alive /\ mgr.pc = "leaveUnreg" /\ room[mgr.room].pc = "select"
    /\ room' = [room EXCEPT ![mgr.room] = [IdleRoom EXCEPT !.pc = "unreg", !.rc = mgr.rc]]
    /\ rMutex' = [rMutex EXCEPT ![mgr.room] = "free"]
    /\ mgr' = [mgr EXCEPT !.pc = "leaveRespond", !.ok = LeaveResult(TRUE, TRUE)]
    /\ UNCHANGED <<hubVars, Send, closes, conn, RoomID, Rooms, rId, rClients, rLog, rProc,
                   memVars, panic, cntVars, heard, ghostVars>>

\* manager.go:151-156, 230 / websocket.go:262-273: the result reaches the
\* reader, which clears c.RoomID and replies room_left on success.
MgrLeaveRespond ==
    /\ Alive /\ mgr.pc = "leaveRespond"
    /\ RoomID' = [RoomID EXCEPT ![mgr.c] = IF mgr.ok THEN Nil ELSE @]
    /\ conn' = [conn EXCEPT ![mgr.c] =
                  IF mgr.ok
                  THEN [IdleConn EXCEPT !.pc = "reply", !.msg = Msg("room_left", Nil, Nil, 0)]
                  ELSE IdleConn]
    /\ mgr' = IdleMgr
    /\ UNCHANGED <<hubVars, Send, closes, Rooms, rId, roomVars, memVars,
                   panic, cntVars, heard, ghostVars>>

\* manager.go:161-166: "room, exists := m.Rooms[req.RoomID]" found no room:
\* the if has no else, the message is dropped and the loop selects again.
RoomNotFoundAny(msg) ==
    [IdleMgr EXCEPT !.pc = "bcSend", !.room = CHOOSE o \in RoomObjs : TRUE, !.msg = msg]
RoomNotFound(msg) == IdleMgr

\* manager.go:159-164, 234-242: Broadcast case: BroadcastToRoom returns once
\* the loop has the request; the message is dropped when the room is absent.
MgrBroadcast(c) ==
    /\ Alive /\ mgr.pc = "select" /\ conn[c].pc = "toMgrBc"
    /\ conn' = [conn EXCEPT ![c] = IdleConn]
    /\ mgr' = IF Rooms[conn[c].msg.room] # Nil
              THEN [IdleMgr EXCEPT !.pc = "bcSend", !.room = Rooms[conn[c].msg.room],
                                   !.msg = conn[c].msg]
              ELSE RoomNotFound(conn[c].msg)
    /\ UNCHANGED <<hubVars, Send, closes, RoomID, Rooms, rId, roomVars, memVars,
                   panic, cntVars, heard, ghostVars>>

\* manager.go:165 / room.go:77: "room.Broadcast <- req.Message" meets the Room
\* loop's select.
MgrBcSend ==
    /\ Alive /\ mgr.pc = "bcSend" /\ room[mgr.room].pc = "select"
    /\ room' = [room EXCEPT ![mgr.room] = [IdleRoom EXCEPT !.pc = "rlock", !.msg = mgr.msg]]
    /\ mgr' = IdleMgr
    /\ UNCHANGED <<hubVars, Send, closes, conn, RoomID, Rooms, rId, rClients, rMutex,
                   rLog, rProc, memVars, panic, cntVars, heard, ghostVars>>

\* ================================================================ Room
\* room.go:50-59: Register case: Lock, insert, Unlock, build the notice.
RoomRegister(o) ==
    /\ Alive /\ room[o].pc = "reg" /\ rMutex[o] = "free"
    /\ rClients' = [rClients EXCEPT ![o] = @ \cup {room[o].rc}]
    /\ room' = [room EXCEPT ![o].pc = "rlock", ![o].msg = RoomJoinedMsg(room[o].rc, o),
                            ![o].sender = room[o].rc]
    /\ UNCHANGED <<hubVars, Send, closes, conn, RoomID, mgrVars, rId, rMutex, rLog, rProc,
                   memVars, panic, cntVars, heard, ghostVars>>

\* room.go:62-74: Unregister case: Lock, delete and close if present, Unlock,
\* build the notice.
RoomUnregister(o) ==
    /\ Alive /\ room[o].pc = "unreg" /\ rMutex[o] = "free"
    /\ IF room[o].rc \in rClients[o]
       THEN /\ rClients' = [rClients EXCEPT ![o] = @ \ {room[o].rc}]
            /\ mCloses' = [mCloses EXCEPT ![room[o].rc] = @ + 1]
            /\ panic' = IF mCloses[room[o].rc] > 0 THEN "close of closed channel" ELSE ""
       ELSE UNCHANGED <<rClients, mCloses, panic>>
    /\ room' = [room EXCEPT ![o].pc = "rlock", ![o].msg = RoomLeftMsg(room[o].rc, o),
                            ![o].sender = Nil]
    /\ UNCHANGED <<hubVars, Send, closes, conn, RoomID, mgrVars, rId, rMutex, rLog, rProc,
                   mOwner, mRoom, mSend, cntVars, heard, ghostVars>>

\* room.go:84-88: broadcastMessage takes the read lock (it waits while the
\* Manager holds the write lock) and starts the range over r.Clients.
RoomRLock(o) ==
    /\ Alive /\ room[o].pc = "rlock" /\ rMutex[o] = "free"
    /\ LET p == StartPass(rClients[o], room[o].sender, room[o].msg)
       IN  /\ room' = [room EXCEPT ![o] = [IdleRoom EXCEPT !.pc = p.pc, !.msg = p.msg,
                                             !.sender = p.sender, !.todo = p.todo]]
           /\ rMutex' = [rMutex EXCEPT ![o] = IF p.pc = "pass" THEN "roomR" ELSE "free"]
    /\ rLog' = [rLog EXCEPT ![o] = NewLog(rClients[o], room[o].sender, room[o].msg)]
    /\ rProc' = [rProc EXCEPT ![o] = Append(@, room[o].msg)]
    /\ UNCHANGED <<hubVars, Send, closes, conn, RoomID, mgrVars, rId, rClients,
                   memVars, panic, cntVars, heard, ghostVars>>

\* room.go:88-101: one iteration of the range loop of broadcastMessage, for
\* record m; the read lock is released when the range is over.
RoomDeliver(o, m) ==
    /\ Alive /\ room[o].pc = "pass" /\ m \in room[o].todo
    /\ LET rest == room[o].todo \ {m}
           fin  == rest = {}
       IN  /\ room' = [room EXCEPT ![o] = IF fin THEN IdleRoom ELSE [@ EXCEPT !.todo = rest]]
           /\ rMutex' = [rMutex EXCEPT ![o] = IF fin THEN "free" ELSE @]
           /\ IF mCloses[m] > 0
              THEN /\ panic' = "send on closed channel"
                   /\ UNCHANGED <<mSend, mCloses, rClients, rLog>>
              ELSE IF Len(mSend[m]) < MemberCap
              THEN /\ mSend' = [mSend EXCEPT ![m] = Enqueue(@, room[o].msg)]
                   /\ rLog' = [rLog EXCEPT ![o].got[m] = @ + Len(mSend'[m]) - Len(mSend[m]),
                                           ![o].done = fin]
                   /\ UNCHANGED <<mCloses, rClients, panic>>
              ELSE /\ mCloses' = [mCloses EXCEPT ![m] = @ + 1]
                   /\ rClients' = [rClients EXCEPT ![o] = Evicted(@, m)]
                   /\ rLog' = [rLog EXCEPT ![o].full = @ \cup {m}, ![o].done = fin]
                   /\ UNCHANGED <<mSend, panic>>
    /\ UNCHANGED <<hubVars, Send, closes, conn, RoomID, mgrVars, rId, mOwner, mRoom,
                   cntVars, heard, ghostVars, rProc>>

\* ================================================================ Spec
Next ==
    \/ \E c \in Clients : HubRegister(c)
    \/ \E c \in Clients : HubUnregister(c)
    \/ \E c \in Clients : HubBroadcast(c)
    \/ \E c \in Clients : HubDeliver(c)
    \/ \E c \in Clients : ReadChat(c)
    \/ \E c \in Clients, id \in RoomIds : ReadCreate(c, id)
    \/ \E c \in Clients, id \in RoomIds : ReadJoin(c, id)
    \/ \E c \in Clients : ReadLeave(c)
    \/ \E c \in Clients : ReadError(c)
    \/ \E c \in Clients : ReadList(c)
    \/ \E c \in Clients, o \in RoomObjs : ListCount(c, o)
    \/ \E c \in Clients : Reply(c)
    \/ \E c \in Clients : Drain(c)
    \/ \E c \in Clients : MgrCreate(c)
    \/ MgrCreateInsert
    \/ \E id \in RoomIds : MgrDelete(id)
    \/ \E m \in Members : MgrDeleteClose(m)
    \/ MgrDeleteDone
    \/ \E c \in Clients : MgrJoin(c)
    \/ MgrJoinRegister
    \/ MgrJoinRespond
    \/ \E c \in Clients : MgrLeave(c)
    \/ MgrLeaveMiss
    \/ \E m \in Members : MgrLeaveHit(m)
    \/ MgrLeaveUnreg
    \/ MgrLeaveRespond
    \/ \E c \in Clients : MgrBroadcast(c)
    \/ MgrBcSend
    \/ \E o \in RoomObjs : RoomRegister(o)
    \/ \E o \in RoomObjs : RoomUnregister(o)
    \/ \E o \in RoomObjs : RoomRLock(o)
    \/ \E o \in RoomObjs, m \in Members : RoomDeliver(o, m)

Spec == Init /\ [][Next]_vars

\* ================================================================ claims
ChatFrom(q, c) == \E i \in 1..Len(q) : q[i].t = "chat" /\ q[i].from = c

\* C1: a chat message sent by client S is never enqueued on S's own outbound
\* queue, neither S's hub.Client.Send (global message) nor the Send of a room
\* record of S (room message).
C1_NoEchoToSender ==
    /\ \A c \in Clients : ~ChatFrom(Send[c], c)
    /\ \A m \in Members : mOwner[m] # Nil => ~ChatFrom(mSend[m], mOwner[m])

\* C2: when A sends a chat message into room R while B's join of R has
\* returned success, the message is enqueued on B's hub.Client.Send (the
\* queue B's writePump drains): once the Room's pass for the message is
\* over, B has been handed the message.
C2_RoomChatReachesPeer ==
    \A o \in RoomObjs :
        (rLog[o].done /\ rLog[o].msg.t = "chat")
            => \A b \in chatAud[rLog[o].msg.n] : rLog[o].msg.n \in heard[b]

\* The Manager loop is inside a request and waits for a Room: for its lock
\* or for its loop to take a Register / Unregister / Broadcast send.
MgrWaiting == mgr.pc \in {"joinRegister", "leaveLock", "leaveUnreg", "bcSend"}
MgrStep ==
    \/ MgrJoinRegister
    \/ MgrLeaveMiss
    \/ \E m \in Members : MgrLeaveHit(m)
    \/ MgrLeaveUnreg
    \/ MgrBcSend
RoomStep(o) ==
    \/ RoomRegister(o)
    \/ RoomUnregister(o)
    \/ RoomRLock(o)
    \/ \E m \in Members : RoomDeliver(o, m)

\* C3: every join or leave request the Manager loop accepted gets its
\* response; the Manager loop never waits forever on a Room loop: while the
\* Manager waits for a Room, the Manager or that Room's loop can take a step.
C3_ManagerNeverStuck ==
    (Alive /\ MgrWaiting) => (ENABLED MgrStep \/ ENABLED RoomStep(mgr.room))

\* C4: no outbound queue, of a client handle or of a room record, is closed a
\* second time.
C4_ClosedAtMostOnce ==
    /\ \A c \in Clients : closes[c] <= 1
    /\ \A m \in Members : mCloses[m] <= 1

\* C5: when a Hub or Room pass finds a member's queue full, then at the end
\* of that pass the member is out of the set and its queue is closed, and
\* every other member the pass tried (the excluded sender is skipped before
\* any attempt) whose queue had room has been handed the message.
C5_FullMemberEvicted ==
    /\ hLog.done =>
         /\ \A x \in hLog.full : x \notin hClients /\ closes[x] >= 1
         /\ hLog.full # {} =>
              \A x \in (hLog.start \ {hLog.sender}) \ hLog.full : hLog.got[x] >= 1
    /\ \A o \in RoomObjs : rLog[o].done =>
         /\ \A x \in rLog[o].full : x \notin rClients[o] /\ mCloses[x] >= 1
         /\ rLog[o].full # {} =>
              \A x \in (rLog[o].start \ {rLog[o].sender}) \ rLog[o].full :
                  rLog[o].got[x] >= 1

\* A Hub pass ended having evicted a full member and served another one.
C5_HubCase ==
    /\ hLog.done /\ hLog.full # {}
    /\ \E x \in hLog.start \ hLog.full : hLog.got[x] = 1

\* A Room pass ended having evicted a full member and served another one.
C5_Witness ==
    \E o \in RoomObjs :
        /\ rLog[o].done /\ rLog[o].full # {}
        /\ \E x \in rLog[o].start \ rLog[o].full : rLog[o].got[x] = 1

\* C6: in one Hub or Room pass, every member in the set when the pass starts,
\* other than the excluded sender, whose queue had room gets exactly one copy
\* of the message appended (a member found full gets none).
C6_ExactlyOneCopy ==
    /\ hLog.done =>
         \A x \in hLog.start \ {hLog.sender} :
             hLog.got[x] = IF x \in hLog.full THEN 0 ELSE 1
    /\ \A o \in RoomObjs : rLog[o].done =>
         \A x \in rLog[o].start \ {rLog[o].sender} :
             rLog[o].got[x] = IF x \in rLog[o].full THEN 0 ELSE 1

\* A Hub pass over two members ended with one copy handed to each.
C6_Witness ==
    /\ hLog.done /\ Cardinality(hLog.start \ {hLog.sender}) >= 2
    /\ \A x \in hLog.start : hLog.got[x] = 1

\* C7: leaveRoom returns false when the room exists but the scan found no
\* member record of the client.
C7_LeaveOfNonMemberFails ==
    (mgr.pc = "leaveRespond" /\ mgr.rc = Nil) => ~mgr.ok

\* C8: once deleteRoom has removed a room from the map, every record in that
\* Room's member set has its queue closed (no client is registered with an
\* open queue in a room that is no longer in the map).
C8_DeletedRoomAllClosed ==
    \A o \in gone : \A m \in rClients[o] : mCloses[m] >= 1

\* The Manager loop takes a join request (manager.go:88) for client c.
TakesJoin(c) == mgr.pc = "select" /\ conn[c].pc = "toJoin" /\ conn'[c].pc = "waitJoin"

\* C9: a join whose identifier is not in the room map gets success = false
\* with "Room not found", and neither serving it nor receiving its response
\* changes the room map, a member set, a queue or the client's current room.
C9_JoinUnknownRoom ==
    [][ /\ \A c \in Clients :
             (TakesJoin(c) /\ Rooms[conn[c].id] = Nil) =>
                 /\ mgr'.pc = "joinRespond" /\ mgr'.c = c
                 /\ ~mgr'.ok /\ mgr'.text = "Room not found"
                 /\ UNCHANGED <<Rooms, rClients, Send, closes, mSend, mCloses, RoomID>>
        /\ (mgr.pc = "joinRespond" /\ ~mgr.ok /\ mgr'.pc = "select") =>
                 /\ conn'[mgr.c].msg.t = "room_error"
                 /\ UNCHANGED <<Rooms, rClients, Send, closes, mSend, mCloses, RoomID>>
      ]_vars

\* A join of an identifier whose room was deleted got "Room not found".
C9_Witness ==
    /\ mgr.pc = "joinRespond" /\ ~mgr.ok /\ mgr.text = "Room not found"
    /\ \E o \in gone : rId[o] = mgr.id

\* C10: a join issued after createRoom returned its identifier, with no
\* deleteRoom of that identifier processed since, succeeds.
C10_JoinAfterCreate ==
    (mgr.pc = "joinRespond" /\ conn[mgr.c].sure) => mgr.ok

\* A client other than the creator joined the created room successfully.
C10_Witness ==
    /\ mgr.pc = "joinRespond" /\ conn[mgr.c].sure /\ mgr.ok
    /\ \E c \in Clients \ {mgr.c} : RoomID[c] = mgr.id

\* The Manager loop and every Room loop are idle in their selects.
RoomsQuiet ==
    /\ mgr.pc = "select"
    /\ \A o \in RoomObjs : room[o].pc \in {"off", "select"}

\* C11: a Room's member set never holds two member records with the same
\* client identifier.
C11_NoDuplicateMember ==
    \A o \in RoomObjs : \A m1, m2 \in rClients[o] :
        mOwner[m1] = mOwner[m2] => m1 = m2

\* The rooms of the map in whose member set client c has a record.
RoomsOf(c) == {id \in RoomIds : Rooms[id] # Nil /\ RecordsOf(Rooms[id], c) # {}}

\* C12: a client has member records in at most one Room of the map.
C12_AtMostOneRoom ==
    \A c \in Clients : Cardinality(RoomsOf(c)) <= 1

\* generateRoomID never returned the identifier of an earlier room.
NoIdClash ==
    \A o1, o2 \in RoomObjs : (rId[o1] # Nil /\ rId[o1] = rId[o2]) => o1 = o2

\* C13: while no join or leave of client c is in progress (its reader is
\* between two frames, the Manager and the Room loops are idle), c's RoomID
\* names a room of the map exactly when c has a record in that Room's set
\* (room identifiers being distinct).
C13_RoomIDMatchesMembership ==
    \A c \in Clients :
        (Alive /\ conn[c].pc = "read" /\ RoomsQuiet /\ NoIdClash) =>
            \A id \in RoomIds :
                Rooms[id] # Nil => (RoomID[c] = id <=> id \in RoomsOf(c))

\* C14: once a lost connection has been unregistered by the Hub and every
\* loop is idle again, its client has no record left in a room of the map.
C14_DisconnectedLeavesRooms ==
    \A c \in Clients :
        (Alive /\ conn[c].pc = "gone" /\ hub.pc = "select" /\ RoomsQuiet)
            => RoomsOf(c) = {}

\* The clients, not disconnected, for which a join of Room o built a record.
JoinedOnce(o) ==
    {b \in Clients : /\ conn[b].pc # "gone"
                     /\ \E m \in Members : mOwner[m] = b /\ mRoom[m] = o}

\* C15: the clientCount a list request reads for a room is the number of
\* clients whose join of that room succeeded and that have not left or
\* disconnected since; in particular it never exceeds the number of
\* connected clients for which a join of that room was ever accepted.
C15_ListCountsMembers ==
    [][ \A c \in Clients, o \in RoomObjs :
            (conn[c].pc = "listCount" /\ o \in conn[c].rooms
                                     /\ o \notin conn'[c].rooms)
                => \A e \in conn'[c].list \ conn[c].list :
                       e.clientCount <= Cardinality(JoinedOnce(o))
      ]_vars

\* The Hub loop is idle in its select and no reader is blocked on a send to
\* Hub.Unregister or Hub.Broadcast.
HubQuiet ==
    /\ hub.pc = "select"
    /\ \A c \in Clients : conn[c].pc \notin {"toUnreg", "toHub"}

\* The clients the Hub registered and has not unregistered since.
RegisteredNow == {c \in Clients : conn[c].pc \notin {"new", "gone"}}

\* C16 as stated: at every quiescent point GetClientCount is the number of
\* clients registered and not yet unregistered.
C16_CountIsRegistered ==
    HubQuiet => GetClientCount = Cardinality(RegisteredNow)

\* C16 (amended): at every quiescent point GetClientCount is the number of
\* clients registered, not yet unregistered, and not evicted by a broadcast
\* pass that found their queue full (their queue is still open).
C16_CountIsRegisteredOpen ==
    HubQuiet => /\ hClients = {c \in RegisteredNow : closes[c] = 0}
                /\ GetClientCount = Cardinality({c \in RegisteredNow : closes[c] = 0})

\* A quiescent point where one registered client is counted and another
\* one, evicted by a pass and not yet unregistered, is not.
C16_Witness ==
    /\ HubQuiet /\ GetClientCount = 1
    /\ \E c \in RegisteredNow : closes[c] > 0
    /\ \E c \in RegisteredNow : closes[c] = 0

\* The Hub loop takes the unregister request of client c (hub.go:91).
TakesUnregister(c) ==
    hub.pc = "select" /\ conn[c].pc = "toUnreg" /\ conn'[c].pc = "gone"

\* C17: a Hub unregister of a client that is not in the Hub's set leaves the
\* set and every queue as they are, closes nothing, and starts no notice
\* pass over the remaining clients.
C17_AbsentUnregisterNoOp ==
    [][ \A c \in Clients :
            (TakesUnregister(c) /\ c \notin hClients) =>
                /\ UNCHANGED <<hClients, closes, Send>>
                /\ hub'.pc = "select" /\ hub'.todo = {}
      ]_vars

\* C18: the join notice of a client is enqueued on no queue of the joining
\* client itself: not on the registering hub.Client's Send, and on the Send
\* of no room record that carries the joining client's identifier; every
\* other member whose queue had room gets it once.
C18_JoinNoticeNotToJoiner ==
    /\ hLog.sender # Nil =>
         /\ hLog.got[hLog.sender] = 0
         /\ hLog.done => \A x \in (hLog.start \ {hLog.sender}) \ hLog.full :
                             hLog.got[x] = 1
    /\ \A o \in RoomObjs : rLog[o].sender # Nil =>
         /\ \A x \in rLog[o].start :
                mOwner[x] = mOwner[rLog[o].sender] => rLog[o].got[x] = 0
         /\ rLog[o].done =>
                \A x \in (rLog[o].start \ {rLog[o].sender}) \ rLog[o].full :
                    mOwner[x] # mOwner[rLog[o].sender] => rLog[o].got[x] = 1

\* The payloads of queue q that a broadcast pass put there (the others are
\* the reader's replies to room actions).
Broadcasts(q) ==
    SelectSeq(q, LAMBDA x : x.t \in {"joined", "left", "joined_room", "left_room", "chat"})

RECURSIVE IsSubseq(_, _)
\* Sequence a can be obtained from b by deleting elements.
IsSubseq(a, b) ==
    IF a = <<>> THEN TRUE
    ELSE IF b = <<>> THEN FALSE
    ELSE IF Head(a) = Head(b) THEN IsSubseq(Tail(a), Tail(b))
    ELSE IsSubseq(a, Tail(b))

\* Two chat messages of one sender stand in queue q in the order sent.
SenderOrder(q) ==
    \A i, j \in 1..Len(q) :
        (i < j /\ q[i].t = "chat" /\ q[j].t = "chat" /\ q[i].from = q[j].from)
            => q[i].n < q[j].n

C20_NoWriteDuringScan ==
    [][ mgr.pc = "delete" => rClients'[mgr.room] = rClients[mgr.room] ]_vars

\* The reader of c enqueues its pending reply on c.Send.
Replies(c) ==
    conn[c].pc = "reply" /\ closes[c] = 0 /\ Send'[c] = Append(Send[c], conn[c].msg)

\* The response to the join that the create handler of mgr.c issued arrives.
AutoJoinAnswered ==
    mgr.pc = "joinRespond" /\ mgr'.pc = "select" /\ conn[mgr.c].obj # Nil

C22_CreateNeverReplaces ==
    [][ (mgr.pc = "create" /\ mgr'.pc = "select") => Rooms[mgr.id] = Nil ]_vars

\* C23: the Manager loop does not hold a Room's write lock while it is
\* blocked on the send to that Room's Unregister channel.
C23_NoLockAcrossSend ==
    \A o \in RoomObjs :
        rMutex[o] = "mgrW" => ~(mgr.pc = "leaveUnreg" /\ mgr.room = o)

\* C24: a broadcast pass, once its loop has entered broadcastMessage, can
\* always take its next step (the read lock, then each delivery attempt),
\* whatever the writers do: it is never left waiting.
C24_PassNeverWaits ==
    /\ (Alive /\ hub.pc = "pass") => ENABLED (\E c \in Clients : HubDeliver(c))
    /\ \A o \in RoomObjs :
         (Alive /\ room[o].pc \in {"rlock", "pass"}) => ENABLED RoomStep(o)

\* A step of the Hub loop (hub.go:76-131).
HubStep ==
    \E c \in Clients :
        HubRegister(c) \/ HubUnregister(c) \/ HubBroadcast(c) \/ HubDeliver(c)

\* A step of the Manager loop (manager.go:61-169).
ManagerStep ==
    \/ \E c \in Clients : MgrCreate(c) \/ MgrJoin(c) \/ MgrLeave(c) \/ MgrBroadcast(c)
    \/ \E id \in RoomIds : MgrDelete(id)
    \/ \E m \in Members : MgrDeleteClose(m) \/ MgrLeaveHit(m)
    \/ MgrCreateInsert \/ MgrDeleteDone \/ MgrJoinRegister \/ MgrJoinRespond
    \/ MgrLeaveMiss \/ MgrLeaveUnreg \/ MgrLeaveRespond \/ MgrBcSend

\* C25: the Hub client set changes only in a step of the Hub loop, a Room's
\* member set only in a step of that Room's loop, the room map only in a
\* step of the Manager loop.
C25_OnlyOwnLoopMutates ==
    [][ /\ hClients' # hClients => HubStep
        /\ \A o \in RoomObjs : rClients'[o] # rClients[o] => RoomStep(o)
        /\ Rooms' # Rooms => ManagerStep
      ]_vars

\* The Manager's DeleteRoom case has closed the queue of a record and the
\* record is still in the Room's member set.
C25_Witness ==
    /\ mgr.pc = "delete"
    /\ \E m \in mgr.seen : m \in rClients[mgr.room] /\ mCloses[m] >= 1

\* The Manager's Broadcast case takes the chat message of c, whose room
\* identifier is not in the room map.
TakesLostChat(c) ==
    /\ conn[c].pc = "toMgrBc" /\ conn'[c].pc # "toMgrBc"
    /\ Rooms[conn[c].msg.room] = Nil

\* C26: a chat message routed to a room identifier that is not in the room
\* map is dropped: no queue, no closed channel, no member set, no room map
\* entry and no Room loop changes, and the Manager loop is back at its
\* select with nothing in hand.
C26_UnknownRoomDrops ==
    [][ \A c \in Clients : TakesLostChat(c) =>
            /\ mgr' = IdleMgr
            /\ UNCHANGED <<Send, mSend, closes, mCloses, hClients, rClients, Rooms,
                           room, hLog, rLog, hProc, rProc, heard, panic>>
      ]_vars

\* Chat message n is held by no reader, by no loop, and no loop ever
\* processed it.
NowhereChat(n) ==
    LET is(x) == x.t = "chat" /\ x.n = n IN
    /\ \A c \in Clients : ~is(conn[c].msg)
    /\ ~is(mgr.msg) /\ ~is(hub.msg)
    /\ \A o \in RoomObjs : ~is(room[o].msg)
    /\ \A i \in 1..Len(hProc) : ~is(hProc[i])
    /\ \A o \in RoomObjs : \A i \in 1..Len(rProc[o]) : ~is(rProc[o][i])

\* A chat message was sent, was dropped by the Manager, and the Manager loop
\* has since served another request.
C26_Witness ==
    /\ \E n \in 1..nmsg : NowhereChat(n)
    /\ Alive /\ mgr.pc = "select"

\* C27: no task sends on an outbound queue that was closed before: the
\* process never ends in the run-time panic of such a send.
C27_NoSendOnClosed == panic # "send on closed channel"

====
